---- MODULE Spec2Model ----
(***************************************************************************)
(* Model of vuln-http-method-auditor (src/main.py): one run of main().     *)
(*                                                                         *)
(* Python values are modelled as follows.                                  *)
(*   - str that the code inspects (the URL, the endpoints): a tuple of     *)
(*     one-character strings, so that startswith and urljoin are computed. *)
(*   - Optional values: None is <<>>, a value x is <<x>>.                  *)
(*   - True / False / None stored in a result dict: "True", "False",       *)
(*     "None".                                                             *)
(*   - dict: a sequence of [k, v] records in insertion order; assigning an *)
(*     existing key replaces its value in place.                           *)
(***************************************************************************)
EXTENDS Integers, Sequences, FiniteSets, TLC

\* Longest endpoint list and longest method list of a modelled command line.
MaxEndpoints == 2
MaxMethods == 2

None == <<>>
Some(x) == <<x>>

---------------------------------------------------------------------------
\* Inputs of the model.

HttpPrefix == <<"h", "t", "t", "p", ":", "/", "/">>
HttpsPrefix == <<"h", "t", "t", "p", "s", ":", "/", "/">>

GoodUrl == HttpPrefix \o <<"h">>
\* https://[   : accepted scheme, malformed host
BracketUrl == HttpsPrefix \o <<"[">>
\* h           : no scheme
BareUrl == <<"h">>
Urls == {GoodUrl, BracketUrl, BareUrl}

EndpointA == <<"/", "a">>
EndpointB == <<"/", "b">>
\* //[         : a network-path reference with a malformed host
EndpointBracket == <<"/", "/", "[">>
EndpointNames == {EndpointA, EndpointB, EndpointBracket}

MethodNames == {"GET", "PUT"}

Outputs == {None, Some(""), Some("out.json")}

\* Status codes a response carries in the main specification.
StatusCodes == {200, 404}
\* Status codes around the two thresholds of the classification.
BoundaryCodes == {200, 301, 399, 400, 403, 404, 599, 600}

RECURSIVE SeqsOfLen(_, _)
SeqsOfLen(S, n) ==
    IF n = 0 THEN {<<>>}
    ELSE {Append(s, x) : s \in SeqsOfLen(S, n - 1), x \in S}

\* Non-empty lists of at most n elements of S (argparse nargs='+').
NonEmptyLists(S, n) == UNION {SeqsOfLen(S, k) : k \in 1..n}

---------------------------------------------------------------------------
\* Python str and dict helpers.

StartsWith(s, p) == Len(s) >= Len(p) /\ SubSeq(s, 1, Len(p)) = p

\* str.find, 1-based; 0 when absent.
Find(s, c) ==
    IF \E i \in 1..Len(s) : s[i] = c
    THEN CHOOSE i \in 1..Len(s) : s[i] = c /\ \A k \in 1..(i - 1) : s[k] # c
    ELSE 0

Contains(s, c) == \E i \in 1..Len(s) : s[i] = c

HasKey(d, k) == \E i \in 1..Len(d) : d[i].k = k

DictGet(d, k) == d[CHOOSE i \in 1..Len(d) : d[i].k = k].v

DictKeys(d) == [i \in 1..Len(d) |-> d[i].k]

\* A variant of d[k] = v that always inserts a new item.
DictSetAppend(d, k, v) == Append(d, [k |-> k, v |-> v])

\* A variant of d[k] = v that keeps the value of an existing key.
DictSetDefault(d, k, v) ==
    IF HasKey(d, k) THEN d ELSE Append(d, [k |-> k, v |-> v])

\* d[k] = v
DictSet(d, k, v) ==
    IF HasKey(d, k)
    THEN [i \in 1..Len(d) |-> IF d[i].k = k THEN [k |-> k, v |-> v] ELSE d[i]]
    ELSE Append(d, [k |-> k, v |-> v])

\* A variant of bool(d) that takes a dict without any non-None value as falsy.
TruthyDictAnyValue(d) == \E i \in 1..Len(d) : d[i].v # "None"

\* bool(d) for a dict
TruthyDict(d) == Len(d) > 0

\* bool(o) for an Optional[str]
TruthyStr(o) == o # None /\ o[1] # ""

---------------------------------------------------------------------------
\* urllib.parse.urljoin, for URLs without query, fragment and dot segments.

SchemeChars == {"h", "t", "p", "s", "a", "b"}

\* urlsplit(url, scheme=default): [scheme, netloc, path, bad]; bad stands for
\* ValueError("Invalid IPv6 URL"), raised for a host with one bracket only.
\* (Later Python versions also reject a bracketed host that is no IP address;
\* no input of the model has one.)
Urlsplit(url, default) ==
    LET i == Find(url, ":")
        hasScheme == i > 1 /\ \A k \in 1..(i - 1) : url[k] \in SchemeChars
        scheme == IF hasScheme THEN SubSeq(url, 1, i - 1) ELSE default
        rest == IF hasScheme THEN SubSeq(url, i + 1, Len(url)) ELSE url
        hasNetloc == StartsWith(rest, <<"/", "/">>)
        after == SubSeq(rest, 3, Len(rest))
        d == Find(after, "/")
        netloc == IF ~hasNetloc THEN <<>>
                  ELSE IF d = 0 THEN after ELSE SubSeq(after, 1, d - 1)
        path == IF ~hasNetloc THEN rest
                ELSE IF d = 0 THEN <<>> ELSE SubSeq(after, d, Len(after))
    IN  [scheme |-> scheme, netloc |-> netloc, path |-> path,
         bad |-> hasNetloc /\ (Contains(netloc, "[") # Contains(netloc, "]"))]

\* urlunsplit
Urlunsplit(scheme, netloc, path) ==
    LET withNetloc ==
            IF netloc # <<>> \/ (scheme # <<>> /\ ~StartsWith(path, <<"/", "/">>))
            THEN <<"/", "/">> \o netloc
                 \o (IF path # <<>> /\ path[1] # "/" THEN <<"/">> ELSE <<>>)
                 \o path
            ELSE path
    IN  IF scheme # <<>> THEN scheme \o <<":">> \o withNetloc ELSE withNetloc

\* The base path up to and including its last "/".
RECURSIVE BaseDir(_)
BaseDir(p) ==
    IF p = <<>> \/ p[Len(p)] = "/" THEN p ELSE BaseDir(SubSeq(p, 1, Len(p) - 1))

\* urljoin(base, url) raises ValueError
UrljoinRaises(base, url) ==
    /\ base # <<>>
    /\ url # <<>>
    /\ \/ Urlsplit(base, <<>>).bad
       \/ Urlsplit(url, Urlsplit(base, <<>>).scheme).bad

\* urljoin(base, url), when it does not raise
Urljoin(base, url) ==
    IF base = <<>> THEN url
    ELSE IF url = <<>> THEN base
    ELSE LET b == Urlsplit(base, <<>>)
             u == Urlsplit(url, b.scheme)
         IN  IF u.scheme # b.scheme THEN url
             ELSE IF u.netloc # <<>> THEN Urlunsplit(u.scheme, u.netloc, u.path)
             ELSE IF u.path = <<>> THEN Urlunsplit(u.scheme, b.netloc, b.path)
             ELSE IF u.path[1] = "/" THEN Urlunsplit(u.scheme, b.netloc, u.path)
             ELSE Urlunsplit(u.scheme, b.netloc, BaseDir(b.path) \o u.path)

---------------------------------------------------------------------------
\* The program.

VARIABLES
    args,         \* the parsed command line
    pc,           \* position of main(): start, next_endpoint, methods, done,
                  \* exit (sys.exit(1)), crashed (uncaught exception)
    i,            \* index of the endpoint of the for loop of main()
    j,            \* index of the method of the for loop of test_http_methods()
    full_url,     \* test_http_methods: full_url
    results,      \* test_http_methods: results
    all_results,  \* main: all_results
    requests,     \* the HTTP requests issued so far, in order
    last,         \* per (endpoint, method): what the latest request for it got
    stub,         \* None: any transport; Some(f): the transport answers by f
    stdout,       \* what was printed to standard output
    file,         \* the output file
    logged,       \* kinds of messages logged so far
    exit_status   \* None while running, Some(status) after termination

vars == <<args, pc, i, j, full_url, results, all_results, requests,
          last, stub, stdout, file, logged, exit_status>>

NoOutcome == [kind |-> "none", code |-> 0]
Exception == [kind |-> "exception", code |-> 0]
Status(s) == [kind |-> "status", code |-> s]

\* The if/else on response.status_code, as one that takes 4xx only as denied.
ClassifyOnly4xx(s) == IF 400 <= s /\ s < 500 THEN "False" ELSE "True"

\* The if/else on response.status_code
Classify(s) == IF 400 <= s /\ s < 600 THEN "False" ELSE "True"

\* The URL check, as one that only asks for some URL.
UrlAcceptedAny(url) == Len(url) > 0

\* not (not startswith("http://") and not startswith("https://"))
UrlAccepted(url) == StartsWith(url, HttpPrefix) \/ StartsWith(url, HttpsPrefix)

\* The endpoints of the loop, as a discover flag that replaces them by the
\* (empty) outcome of a crawl would give them.
EndpointListDiscover(a) == IF a.discover THEN <<>> ELSE a.endpoints[1]

\* args.endpoints, the list the for loop of main() runs over
EndpointList(a) == a.endpoints[1]

\* The sink test, as "is not None".
OutputGivenNotNone(a) == a.output # None

\* if args.output:
OutputGiven(a) == TruthyStr(a.output)

JsonLiteral(v) ==
    CASE v = "True" -> "true"
      [] v = "False" -> "false"
      [] v = "None" -> "null"

\* json.dumps(all_results): the members in dict order, the values as JSON
\* literals.
Dumps(d) ==
    [x \in 1..Len(d) |->
        [k |-> d[x].k,
         v |-> [y \in 1..Len(d[x].v) |->
                  [k |-> d[x].v[y].k, v |-> JsonLiteral(d[x].v[y].v)]]]]

Text(t) == [kind |-> "text", text |-> t, json |-> <<>>]
Json(d) == [kind |-> "json", text |-> "", json |-> Dumps(d)]

NoFile == [state |-> "untouched", json |-> <<>>]

InitWith(urls, endpointLists, methodLists, outputs, discovers, stubs) ==
    /\ args \in [url : urls, endpoints : endpointLists, methods : methodLists,
                 output : outputs, discover : discovers]
    /\ stub \in stubs
    /\ pc = "start"
    /\ i = 1
    /\ j = 1
    /\ full_url = <<>>
    /\ results = <<>>
    /\ all_results = <<>>
    /\ requests = <<>>
    /\ last = [p \in EndpointNames \X MethodNames |-> NoOutcome]
    /\ stdout = <<>>
    /\ file = NoFile
    /\ logged = {}
    /\ exit_status = None

\* The state after args = setup_argparse(): -e is absent or has at least
\* one value, -m has at least one value.
Init ==
    InitWith(Urls,
             {None} \cup {Some(l) : l \in NonEmptyLists(EndpointNames, MaxEndpoints)},
             NonEmptyLists(MethodNames, MaxMethods),
             Outputs, BOOLEAN, {None})

\* main(), input validation
ValidateArgs ==
    /\ pc = "start"
    /\ IF ~UrlAccepted(args.url)
       THEN /\ stdout' = Append(stdout, Text("Error: URL must start with http:// or https://"))
            /\ exit_status' = Some(1)
            /\ pc' = "exit"
            /\ UNCHANGED logged
       ELSE IF args.endpoints = None
       THEN /\ logged' = logged \cup {"warning: no endpoints"}
            /\ stdout' = Append(stdout, Text("Error: No endpoints specified"))
            /\ exit_status' = Some(1)
            /\ pc' = "exit"
       ELSE /\ pc' = "next_endpoint"
            /\ UNCHANGED <<stdout, exit_status, logged>>
    /\ UNCHANGED <<args, i, j, full_url, results, all_results, requests,
                   last, stub, file>>

\* main(): the for loop takes the next endpoint and calls test_http_methods,
\* which joins the URL.
CallTestHttpMethods ==
    /\ pc = "next_endpoint"
    /\ i <= Len(EndpointList(args))
    /\ ~UrljoinRaises(args.url, EndpointList(args)[i])
    /\ logged' = logged \cup {"info: auditing endpoint"}
    /\ results' = <<>>
    /\ full_url' = Urljoin(args.url, EndpointList(args)[i])
    /\ j' = 1
    /\ pc' = "methods"
    /\ UNCHANGED <<args, i, all_results, requests, last, stub,
                   stdout, file, exit_status>>

\* urljoin stands before the try of test_http_methods: its ValueError leaves
\* test_http_methods and main(), and the interpreter exits with status 1.
UrljoinValueError ==
    /\ pc = "next_endpoint"
    /\ i <= Len(EndpointList(args))
    /\ UrljoinRaises(args.url, EndpointList(args)[i])
    /\ logged' = logged \cup {"info: auditing endpoint"}
    /\ pc' = "crashed"
    /\ exit_status' = Some(1)
    /\ UNCHANGED <<args, i, j, full_url, results, all_results, requests,
                   last, stub, stdout, file>>

\* The transport may give outcome o to the request (url, method).
TransportGives(url, method, o) ==
    IF stub = None THEN TRUE ELSE stub[1][<<url, method>>] = o

\* One iteration of the method loop: requests.request returns a response.
RequestResponds(codes) ==
    /\ pc = "methods"
    /\ j <= Len(args.methods)
    /\ \E s \in codes :
        /\ TransportGives(full_url, args.methods[j], Status(s))
        /\ results' = DictSet(results, args.methods[j], Classify(s))
        /\ last' = [last EXCEPT ![<<EndpointList(args)[i], args.methods[j]>>] = Status(s)]
    /\ requests' = Append(requests, [url |-> full_url, method |-> args.methods[j]])
    /\ j' = j + 1
    /\ UNCHANGED <<args, pc, i, full_url, all_results, stub, stdout, file,
                   logged, exit_status>>

\* One iteration of the method loop: requests.request raises.
RequestRaises ==
    /\ pc = "methods"
    /\ j <= Len(args.methods)
    /\ TransportGives(full_url, args.methods[j], Exception)
    /\ logged' = logged \cup {"error: request"}
    /\ results' = DictSet(results, args.methods[j], "None")
    /\ last' = [last EXCEPT ![<<EndpointList(args)[i], args.methods[j]>>] = Exception]
    /\ requests' = Append(requests, [url |-> full_url, method |-> args.methods[j]])
    /\ j' = j + 1
    /\ UNCHANGED <<args, pc, i, full_url, all_results, stub, stdout, file,
                   exit_status>>

\* test_http_methods returns results; main() keeps them when truthy.
ReturnResults ==
    /\ pc = "methods"
    /\ j > Len(args.methods)
    /\ IF TruthyDict(results)
       THEN /\ all_results' = DictSet(all_results, EndpointList(args)[i], results)
            /\ UNCHANGED logged
       ELSE /\ logged' = logged \cup {"error: endpoint failed"}
            /\ UNCHANGED all_results
    /\ i' = i + 1
    /\ pc' = "next_endpoint"
    /\ UNCHANGED <<args, j, full_url, results, requests, last, stub,
                   stdout, file, exit_status>>

\* main(): save_results_to_file succeeds.
SaveResults ==
    /\ pc = "next_endpoint"
    /\ i > Len(EndpointList(args))
    /\ OutputGiven(args)
    /\ file' = [state |-> "written", json |-> Dumps(all_results)]
    /\ logged' = logged \cup {"info: saved", "info: completed"}
    /\ pc' = "done"
    /\ exit_status' = Some(0)
    /\ UNCHANGED <<args, i, j, full_url, results, all_results, requests,
                   last, stub, stdout>>

\* main(): save_results_to_file gets an IOError, from open (the file is
\* untouched) or from the write (the file is left truncated).
SaveResultsIOError ==
    /\ pc = "next_endpoint"
    /\ i > Len(EndpointList(args))
    /\ OutputGiven(args)
    /\ \E st \in {"untouched", "truncated"} : file' = [state |-> st, json |-> <<>>]
    /\ logged' = logged \cup {"error: saving", "info: completed"}
    /\ pc' = "done"
    /\ exit_status' = Some(0)
    /\ UNCHANGED <<args, i, j, full_url, results, all_results, requests,
                   last, stub, stdout>>

\* main(): print(json.dumps(all_results, indent=4))
PrintResults ==
    /\ pc = "next_endpoint"
    /\ i > Len(EndpointList(args))
    /\ ~OutputGiven(args)
    /\ stdout' = Append(stdout, Json(all_results))
    /\ logged' = logged \cup {"info: completed"}
    /\ pc' = "done"
    /\ exit_status' = Some(0)
    /\ UNCHANGED <<args, i, j, full_url, results, all_results, requests,
                   last, stub, file>>

NextOn(codes) ==
    \/ ValidateArgs
    \/ CallTestHttpMethods
    \/ UrljoinValueError
    \/ RequestResponds(codes)
    \/ RequestRaises
    \/ ReturnResults
    \/ SaveResults
    \/ SaveResultsIOError
    \/ PrintResults

Next == NextOn(StatusCodes)

Spec == Init /\ [][Next]_vars

\* Responses with status codes on both sides of the thresholds, for one
\* endpoint per run.
InitCodes ==
    InitWith({GoodUrl},
             {Some(<<e>>) : e \in EndpointNames},
             NonEmptyLists(MethodNames, MaxMethods),
             {None, Some("out.json")}, {FALSE}, {None})

NextCodes == NextOn(BoundaryCodes)

SpecCodes == InitCodes /\ [][NextCodes]_vars

\* A stub transport: one fixed outcome per (URL, method).
StubUrls == {Urljoin(GoodUrl, e) : e \in {EndpointA, EndpointB}}
StubOutcomes == {Status(s) : s \in StatusCodes} \cup {Exception}

InitStub ==
    InitWith({GoodUrl},
             {None} \cup {Some(l) : l \in NonEmptyLists(EndpointNames, MaxEndpoints)},
             NonEmptyLists(MethodNames, MaxMethods),
             {None, Some("out.json")}, BOOLEAN,
             {Some(f) : f \in [StubUrls \X MethodNames -> StubOutcomes]})

SpecStub == InitStub /\ [][Next]_vars

---------------------------------------------------------------------------
\* Vocabulary of the properties.

\* The elements of s in the order of their first occurrence.
RECURSIVE FirstOccurrences(_)
FirstOccurrences(s) ==
    IF s = <<>> THEN <<>>
    ELSE LET front == SubSeq(s, 1, Len(s) - 1)
             x == s[Len(s)]
         IN  IF \E k \in 1..Len(front) : front[k] = x
             THEN FirstOccurrences(front)
             ELSE Append(FirstOccurrences(front), x)

Range(s) == {s[k] : k \in 1..Len(s)}

NoDuplicates(s) == \A a, b \in 1..Len(s) : s[a] = s[b] => a = b

IsPrefix(s, t) == Len(s) <= Len(t) /\ s = SubSeq(t, 1, Len(s))

\* The JSON documents written so far, to either sink.
PrintedJson == {stdout[k].json : k \in {n \in 1..Len(stdout) : stdout[n].kind = "json"}}
EmittedJson == PrintedJson \cup (IF file.state = "written" THEN {file.json} ELSE {})

Terminated == exit_status # None

\* The value the documentation assigns to an outcome of a request.
Documented(o) ==
    IF o.kind = "exception" THEN "None"
    ELSE IF o.code >= 400 /\ o.code <= 599 THEN "False" ELSE "True"

\* The scheme test of the usage rules, on the URL itself.
SchemeAccepted ==
    \/ (Len(args.url) >= 7 /\ SubSeq(args.url, 1, 7) = <<"h", "t", "t", "p", ":", "/", "/">>)
    \/ (Len(args.url) >= 8 /\ SubSeq(args.url, 1, 8) = <<"h", "t", "t", "p", "s", ":", "/", "/">>)

\* endpoint list x method list, endpoint-major, as requests
RECURSIVE CrossRequests(_, _, _)
CrossRequests(url, endpoints, methods) ==
    IF endpoints = <<>> THEN <<>>
    ELSE [y \in 1..Len(methods) |->
            [url |-> Urljoin(url, endpoints[1]), method |-> methods[y]]]
         \o CrossRequests(url, Tail(endpoints), methods)

---------------------------------------------------------------------------
\* C1: at every point of a run and in the output, every endpoint entry of the
\* report has as keys exactly the configured methods, in configured order
\* (the order of their first occurrence), each mapped to True, False or None
\* (true, false or null in the JSON output).
C1_EntriesHaveConfiguredMethods ==
    /\ \A x \in 1..Len(all_results) :
          /\ DictKeys(all_results[x].v) = FirstOccurrences(args.methods)
          /\ \A y \in 1..Len(all_results[x].v) :
                all_results[x].v[y].v \in {"True", "False", "None"}
    /\ \A doc \in EmittedJson : \A x \in 1..Len(doc) :
          /\ DictKeys(doc[x].v) = FirstOccurrences(args.methods)
          /\ \A y \in 1..Len(doc[x].v) : doc[x].v[y].v \in {"true", "false", "null"}

C1_Witness ==
    /\ pc = "done"
    /\ Len(all_results) = 2
    /\ args.methods = <<"PUT", "PUT">>
    /\ EmittedJson # {}

\* C2: for every pair whose request got a response with status s, the recorded
\* result is False when 400 <= s < 600 and True for every other status.
C2_StatusDecidesResult ==
    /\ pc = "methods" =>
          \A y \in 1..Len(results) :
             LET o == last[<<EndpointList(args)[i], results[y].k>>]
             IN  o.kind = "status" =>
                    results[y].v = (IF 400 <= o.code /\ o.code < 600 THEN "False" ELSE "True")
    /\ pc \in {"next_endpoint", "done"} =>
          \A x \in 1..Len(all_results) : \A y \in 1..Len(all_results[x].v) :
             LET o == last[<<all_results[x].k, all_results[x].v[y].k>>]
             IN  o.kind = "status" =>
                    all_results[x].v[y].v =
                       (IF 400 <= o.code /\ o.code < 600 THEN "False" ELSE "True")

C2_Witness ==
    /\ pc = "done"
    /\ last[<<EndpointA, "GET">>] = Status(599)
    /\ last[<<EndpointA, "PUT">>] = Status(600)
    /\ Len(all_results) = 1

\* C3: when a request fails, its pair is recorded as None, and every later
\* method of the endpoint and every later endpoint is still probed: a run in
\* which a request failed ends with every pair requested and with None for
\* every pair whose last request failed.
C3_FailureDoesNotStopProbing ==
    (Terminated /\ "error: request" \in logged) =>
        /\ Len(requests) = Len(EndpointList(args)) * Len(args.methods)
        /\ \A x \in 1..Len(all_results) : \A y \in 1..Len(all_results[x].v) :
              last[<<all_results[x].k, all_results[x].v[y].k>>].kind = "exception"
                 => all_results[x].v[y].v = "None"

C5_AcceptedRunExitsZero ==
    (SchemeAccepted /\ args.endpoints # None /\ Terminated) =>
        (pc = "done" /\ exit_status = Some(0))

\* C6 as stated: the report goes to exactly one sink after all probing, to the
\* file when an output path is given (args.output is not None), else to
\* standard output; a failed write leaves standard output without the report.
C6_FileWheneverPathGiven ==
    pc = "done" =>
        IF args.output # None
        THEN PrintedJson = {} /\ (file.state = "written" \/ "error: saving" \in logged)
        ELSE Cardinality(PrintedJson) = 1 /\ file.state = "untouched"

C6_SinkState ==
    /\ pc # "done" => (EmittedJson = {} /\ file.state = "untouched")
    /\ pc = "done" =>
          /\ Len(requests) = Len(EndpointList(args)) * Len(args.methods)
          /\ exit_status = Some(0)
          /\ IF args.output # None /\ args.output # <<"">>
             THEN /\ PrintedJson = {}
                  /\ \/ file = [state |-> "written", json |-> Dumps(all_results)]
                     \/ file.state # "written" /\ "error: saving" \in logged
             ELSE /\ PrintedJson = {Dumps(all_results)}
                  /\ Len(stdout) = 1
                  /\ file.state = "untouched"

\* C6, amended: the report is emitted after all probing to exactly one sink, to
\* the file when a non-empty output path is given, else (no path, or the empty
\* string) to standard output; when the write fails the failure is logged, the
\* report in memory is unchanged, standard output stays empty and the exit
\* status is 0.
C6_OneSinkNonEmptyPath ==
    /\ []C6_SinkState
    /\ [][pc' = "done" => all_results' = all_results]_vars

C6_Witness ==
    /\ pc = "done"
    /\ "error: saving" \in logged
    /\ file.state = "truncated"
    /\ Len(all_results) = 2

\* C7: in a run that passes validation the requests issued are exactly
\* endpoint list x method list, in order, one per occurrence: always a prefix
\* of it, and all of it when the run has ended.
C7_RequestsAreCrossProduct ==
    pc \notin {"start", "exit"} =>
        /\ IsPrefix(requests, CrossRequests(args.url, EndpointList(args), args.methods))
        /\ Terminated =>
              requests = CrossRequests(args.url, EndpointList(args), args.methods)

\* The report that URL, endpoints, methods and a stub transport f determine.
ExpectedReport(url, endpoints, methods, f) ==
    [x \in 1..Len(FirstOccurrences(endpoints)) |->
        [k |-> FirstOccurrences(endpoints)[x],
         v |-> [y \in 1..Len(FirstOccurrences(methods)) |->
                  [k |-> FirstOccurrences(methods)[y],
                   v |-> Documented(f[<<Urljoin(url, FirstOccurrences(endpoints)[x]),
                                        FirstOccurrences(methods)[y]>>])]]]]

\* C8: the output is a function of URL, endpoints, methods and the transport's
\* answers only: against a stub transport the emitted report is the one those
\* four determine, whatever the discover flag is.
C8_ReportDeterminedByConfigAndTransport ==
    /\ pc # "done" => EmittedJson = {}
    /\ pc = "done" =>
          /\ all_results = ExpectedReport(args.url, args.endpoints[1], args.methods, stub[1])
          /\ \A doc \in EmittedJson :
                doc = Dumps(ExpectedReport(args.url, args.endpoints[1], args.methods, stub[1]))
          /\ ~TruthyStr(args.output) => EmittedJson # {}

C8_Witness ==
    /\ pc = "done"
    /\ args.discover
    /\ Len(all_results) = 2
    /\ EmittedJson # {}
    /\ \E x \in 1..2 : \E y \in 1..Len(all_results[x].v) : all_results[x].v[y].v = "False"

\* C9: with a non-empty method list the probe never gives "no report": no
\* endpoint is skipped, the report holds exactly the endpoints probed so far
\* and, at the end, exactly the configured endpoints, also one whose requests
\* all failed.
C9_NoEndpointOmitted ==
    /\ "error: endpoint failed" \notin logged
    /\ pc = "next_endpoint" =>
          Range(DictKeys(all_results)) = {EndpointList(args)[k] : k \in 1..(i - 1)}
    /\ pc = "done" =>
          /\ Range(DictKeys(all_results)) = Range(EndpointList(args))
          /\ \A doc \in EmittedJson : Range(DictKeys(doc)) = Range(EndpointList(args))

C9_Witness ==
    /\ pc = "done"
    /\ Len(args.methods) = 2
    /\ Len(all_results) = 2
    /\ \A y \in 1..Len(all_results[1].v) : all_results[1].v[y].v = "None"
    /\ \E y \in 1..Len(all_results[2].v) : all_results[2].v[y].v = "True"

C10_ReportState ==
    pc \in {"next_endpoint", "done"} =>
        /\ Len(requests) = (i - 1) * Len(args.methods)
        /\ NoDuplicates(DictKeys(all_results))
        /\ \A x \in 1..Len(all_results) :
              /\ NoDuplicates(DictKeys(all_results[x].v))
              /\ \A y \in 1..Len(all_results[x].v) :
                    all_results[x].v[y].v =
                       Documented(last[<<all_results[x].k, all_results[x].v[y].k>>])

C10_OtherEntriesKept ==
    IF pc = "methods"
    THEN \A x \in 1..Len(all_results) :
            all_results[x].k # EndpointList(args)[i] =>
               /\ HasKey(all_results', all_results[x].k)
               /\ DictGet(all_results', all_results[x].k) = all_results[x].v
    ELSE all_results' = all_results

\* C10: a request is issued for every occurrence of an endpoint and of a
\* method, the report has one key for each, the value of a pair is the outcome
\* of the last request issued for it, and a probe leaves the entries of the
\* other endpoints unchanged.
C10_LastRequestWins ==
    /\ []C10_ReportState
    /\ [][C10_OtherEntriesKept]_vars

C10_Witness ==
    /\ pc = "done"
    /\ args.endpoints = Some(<<EndpointA, EndpointA>>)
    /\ args.methods = <<"GET", "GET">>
    /\ Len(requests) = 4
    /\ Len(all_results) = 1
    /\ Len(all_results[1].v) = 1

====
